---- MODULE Spec2Model ----
(***************************************************************************)
(* A model of code/utils.py: the rolling median filter (median_filter),   *)
(* the train/test split (prepare_data) and the date-aligned joins          *)
(* (add_regressor_to_future, make_verif).                                  *)
(*                                                                         *)
(* Numbers.  The observations are counts, modelled as naturals.  pandas    *)
(* computes the rolling statistics in float64; the model computes them in  *)
(* exact arithmetic on integers:                                           *)
(*   - a cell of the 'median' column holds TWICE the median (the median of *)
(*     an even number of observations is the mean of the two middle ones); *)
(*   - a cell of the 'std' column holds the pair <<n, S>> with             *)
(*     S = n*Sum(x^2) - Sum(x)^2, so that std^2 = S / (n*(n-1)) (ddof=1).  *)
(* A comparison  v >= median + K*std  is then decided exactly by           *)
(*   2v - 2median >= 0  /\  (2v - 2median)^2 * n(n-1)/2 >= 2*K^2*S.        *)
(***************************************************************************)
EXTENDS Integers, Sequences, FiniteSets, TLC

(***************************************************************************)
(* Bounds of the model.                                                    *)
(***************************************************************************)
MaxLen == 5        \* longest column drawn for median_filter
MaxVal == 1        \* largest observation drawn
MaxWindow == 4     \* largest window drawn
MaxStd == 2        \* largest threshold multiple drawn

(***************************************************************************)
(* Program constants.                                                      *)
(***************************************************************************)
NaN == -1              \* np.nan: the missing marker, no valid observation
DefaultWindow == 24    \* median_filter(..., window=24, ...)
DefaultStd == 3        \* median_filter(..., std=3)

NaNStd == <<0, 0>>     \* a missing cell of the 'std' column

Values == 0..MaxVal
Cells == Values \cup {NaN}

RECURSIVE SeqsUpTo(_, _)
SeqsUpTo(S, n) ==
    IF n = 0 THEN {<< >>}
    ELSE LET shorter == SeqsUpTo(S, n - 1)
         IN  shorter \cup {Append(s, v) : s \in {t \in shorter : Len(t) = n - 1}, v \in S}

RECURSIVE Sum(_)
Sum(s) == IF s = << >> THEN 0 ELSE Head(s) + Sum(Tail(s))

Squares(s) == [i \in 1..Len(s) |-> s[i] * s[i]]

Max(a, b) == IF a >= b THEN a ELSE b
Min(a, b) == IF a <= b THEN a ELSE b

(***************************************************************************)
(* Series.rolling(window, center=True): the window of record i.  pandas    *)
(* shifts the trailing window by offset = (window - 1) // 2, so the window *)
(* of record i spans i + offset - window + 1 .. i + offset, cut to the     *)
(* table; min_periods defaults to the window length for an integer window. *)
(***************************************************************************)
\* center=False: the window trails the record
TrailingOffset(window) == 0

CenterOffset(window) == (window - 1) \div 2

WindowStart(i, window) == i + CenterOffset(window) - window + 1

WindowEnd(i, window) == i + CenterOffset(window)

RollingWindow(col, i, window) ==
    SubSeq(col, Max(1, WindowStart(i, window)), Min(Len(col), WindowEnd(i, window)))

Observations(win) == SelectSeq(win, LAMBDA v : v # NaN)

\* min_periods=1: a statistic over whatever the window holds
MinPeriodsOne(window) == 1

MinPeriods(window) == window

\* twice the median of a non-empty sequence of observations
Median2(obs) ==
    LET sorted == SortSeq(obs, LAMBDA a, b : a < b)
        n == Len(obs)
    IN  IF n % 2 = 1 THEN 2 * sorted[(n + 1) \div 2]
        ELSE sorted[n \div 2] + sorted[n \div 2 + 1]

\* <<n, n*Sum(x^2) - Sum(x)^2>>: the sample standard deviation (ddof = 1)
Std2(obs) ==
    LET n == Len(obs)
    IN  <<n, n * Sum(Squares(obs)) - Sum(obs) * Sum(obs)>>

\* dfc[varname].rolling(window, center=True).median()
RollingMedian(col, window) ==
    [i \in 1..Len(col) |->
        LET obs == Observations(RollingWindow(col, i, window))
        IN  IF Len(obs) < MinPeriods(window) \/ Len(obs) = 0 THEN NaN
            ELSE Median2(obs)]

\* dfc[varname].rolling(window, center=True).std()
RollingStd(col, window) ==
    [i \in 1..Len(col) |->
        LET obs == Observations(RollingWindow(col, i, window))
        IN  IF Len(obs) < MinPeriods(window) \/ Len(obs) < 2 THEN NaNStd
            ELSE Std2(obs)]

(***************************************************************************)
(* The two threshold tests.  A comparison with a missing operand is False. *)
(***************************************************************************)
\* exclusive bounds: > and < in place of >= and <=
BeyondStrict(d2, sd, std) ==
    d2 * d2 * ((sd[1] * (sd[1] - 1)) \div 2) > 2 * std * std * sd[2]

\* d2 / 2 >= std * (the standard deviation of cell sd), for d2 >= 0
Beyond(d2, sd, std) ==
    d2 * d2 * ((sd[1] * (sd[1] - 1)) \div 2) >= 2 * std * std * sd[2]

\* dfc[varname] >= dfc['median'] + std * dfc['std']
UpperMask(v, med2, sd, std) ==
    /\ v # NaN /\ med2 # NaN /\ sd # NaNStd
    /\ 2 * v - med2 >= 0
    /\ Beyond(2 * v - med2, sd, std)

\* dfc[varname] <= dfc['median'] - std * dfc['std']
LowerMask(v, med2, sd, std) ==
    /\ v # NaN /\ med2 # NaN /\ sd # NaNStd
    /\ med2 - 2 * v >= 0
    /\ Beyond(med2 - 2 * v, sd, std)

(***************************************************************************)
(* Tables are functions from column names to columns.  During a call two   *)
(* table objects exist: the caller's (df) and the one median_filter works  *)
(* on (dfc); `mem' holds both and a reference names one of them.           *)
(***************************************************************************)
SetColumn(mem, ref, name, col) ==
    [mem EXCEPT ![ref] = (name :> col) @@ mem[ref]]

\* dfc = df: the working table is the caller's table itself
LocView(mem, varname) == [mem |-> mem, ref |-> "df"]

\* df.loc[:, [varname]]: a list indexer builds a new table holding a copy
Loc(mem, varname) ==
    [mem |-> [mem EXCEPT !.dfc = (varname :> mem.df[varname])], ref |-> "dfc"]

\* the masked records are dropped instead of being marked
MaskAssignDrop(mem, ref, varname, mask) ==
    SetColumn(mem, ref, varname,
              LET col == mem[ref][varname]
                  keep == SelectSeq([i \in 1..Len(col) |-> i], LAMBDA i : ~mask[i])
              IN  [k \in 1..Len(keep) |-> col[keep[k]]])

\* dfc.loc[mask, varname] = np.nan
MaskAssign(mem, ref, varname, mask) ==
    SetColumn(mem, ref, varname,
              [i \in 1..Len(mem[ref][varname]) |->
                  IF mask[i] THEN NaN ELSE mem[ref][varname][i]])

median_filter(table, varname, window, std) ==
    LET m0 == [df |-> table, dfc |-> << >>]
        l == Loc(m0, varname)
        dfc == l.ref
        m1 == SetColumn(l.mem, dfc, "median",
                        RollingMedian(l.mem[dfc][varname], window))
        m2 == SetColumn(m1, dfc, "std", RollingStd(m1[dfc][varname], window))
        m3 == MaskAssign(m2, dfc, varname,
                         [i \in 1..Len(m2[dfc][varname]) |->
                             UpperMask(m2[dfc][varname][i], m2[dfc]["median"][i],
                                       m2[dfc]["std"][i], std)])
        m4 == MaskAssign(m3, dfc, varname,
                         [i \in 1..Len(m3[dfc][varname]) |->
                             LowerMask(m3[dfc][varname][i], m3[dfc]["median"][i],
                                       m3[dfc]["std"][i], std)])
    IN  [df |-> m4.df, ret |-> m4[dfc][varname]]

(***************************************************************************)
(* Frames with an index (prepare_data, add_regressor_to_future,            *)
(* make_verif): [name |-> the index's name, index |-> the row labels,      *)
(* cols |-> column name -> column].                                        *)
(***************************************************************************)
NoName == "None"

Frame(name, index, cols) == [name |-> name, index |-> index, cols |-> cols]

NRows(frame) == Len(frame.index)

RangeIndex(n) == [i \in 1..n |-> i - 1]

\* the rows lo..hi of a frame, in order
Rows(frame, lo, hi) ==
    Frame(frame.name, SubSeq(frame.index, lo, hi),
          [c \in DOMAIN frame.cols |-> SubSeq(frame.cols[c], lo, hi)])

\* DataFrame.reset_index(): the index becomes the first column, named after
\* the index ('index' when it has no name); the rows are numbered from 0
ResetIndex(frame) ==
    Frame(NoName, RangeIndex(NRows(frame)),
          ((IF frame.name = NoName THEN "index" ELSE frame.name) :> frame.index)
              @@ frame.cols)

\* DataFrame.rename({from: to}, axis=1): a label that is no column is ignored
Rename(frame, from, to) ==
    LET names == {IF c = from THEN to ELSE c : c \in DOMAIN frame.cols}
    IN  Frame(frame.name, frame.index,
              [c \in names |-> IF c = to /\ from \in DOMAIN frame.cols
                               THEN frame.cols[from] ELSE frame.cols[c]])

(***************************************************************************)
(* Timestamps of prepare_data: year * DayBase + day.  A year label str(y)  *)
(* used as a slice bound stands for the whole year: its first instant as a *)
(* lower bound, its last instant as an upper bound.                        *)
(***************************************************************************)
MaxDay == 2         \* instants drawn per year
MaxRows == 4        \* longest table drawn for prepare_data
DefaultYear == 2017 \* prepare_data(data, year=2017)

DayBase == MaxDay + 1

\* the tables drawn span the two years before the default cutoff, its year
\* and the next
FirstYear == DefaultYear - 2

LastYear == DefaultYear + 1

Years == FirstYear..LastYear

Instants == {y * DayBase + d : y \in Years, d \in 1..MaxDay}

YearOf(t) == t \div DayBase

YearStart(label) == label * DayBase

YearEnd(label) == label * DayBase + DayBase - 1

\* position bounds of a label slice on a sorted index (searchsorted)
SearchSortedLeft(index, t) == Cardinality({i \in 1..Len(index) : index[i] < t})

SearchSortedRight(index, t) == Cardinality({i \in 1..Len(index) : index[i] <= t})

\* data.loc[:label, :]
LocUpTo(frame, label) ==
    Rows(frame, 1, SearchSortedRight(frame.index, YearEnd(label)))

\* data.loc[label:, :]
LocFrom(frame, label) ==
    Rows(frame, SearchSortedLeft(frame.index, YearStart(label)) + 1, NRows(frame))

\* str(year) as the upper bound of the training slice
TrainLabelSame(year) == year

\* str(year - 1)
TrainLabel(year) == year - 1

\* str(year)
TestLabel(year) == year

prepare_data(data, year) ==
    LET train0 == LocUpTo(data, TrainLabel(year))
        test0 == LocFrom(data, TestLabel(year))
        train1 == ResetIndex(train0)
        test1 == ResetIndex(test0)
    IN  [data_train |-> Rename(train1, "datetime", "ds"),
         data_test |-> Rename(test1, "datetime", "ds")]

(***************************************************************************)
(* Dates of the joins.  A 'ds' cell is <<kind, day>>: a timestamp ("ts")   *)
(* or a date string ("str"); pd.to_datetime turns both into the timestamp. *)
(***************************************************************************)
MaxDate == 3        \* days drawn for the joins

Days == 1..MaxDate

Kinds == {"ts", "str"}

\* the column is used as it is, unconverted
AsIs(col) == col

to_datetime(col) == [i \in 1..Len(col) |-> <<"ts", col[i][2]>>]

RangeOf(s) == {s[i] : i \in 1..Len(s)}

\* the sequence of the elements of a set of days, ascending
RECURSIVE Ascending(_)
Ascending(S) ==
    IF S = {} THEN << >>
    ELSE LET m == CHOOSE x \in S : \A z \in S : x <= z
         IN  <<m>> \o Ascending(S \ {m})

\* the value of column c of frame at the (first) row labelled key
At(frame, c, key) ==
    frame.cols[c][CHOOSE i \in 1..NRows(frame) : frame.index[i] = key]

\* pd.concat(frames, axis=1): the union of the indexes, each column aligned
\* to it, missing where its frame has no such row
ConcatColumns(frames) ==
    LET keys == UNION {RangeOf(frames[k].index) : k \in 1..Len(frames)}
        index == Ascending({key[2] : key \in keys})
        labels == [i \in 1..Len(index) |-> <<"ts", index[i]>>]
        owner(c) == CHOOSE k \in 1..Len(frames) : c \in DOMAIN frames[k].cols
        names == UNION {DOMAIN frames[k].cols : k \in 1..Len(frames)}
    IN  Frame(NoName, labels,
              [c \in names |->
                  [i \in 1..Len(labels) |->
                      IF labels[i] \in RangeOf(frames[owner(c)].index)
                      THEN At(frames[owner(c)], c, labels[i]) ELSE NaN]])

\* how='left': every row of left, missing values where right has no such label
MergeOnIndexLeft(left, right) ==
    Frame(left.name, left.index,
          [c \in DOMAIN left.cols \cup DOMAIN right.cols |->
              [i \in 1..NRows(left) |->
                  IF c \in DOMAIN left.cols THEN left.cols[c][i]
                  ELSE IF left.index[i] \in RangeOf(right.index)
                       THEN right.cols[c][CHOOSE j \in 1..NRows(right) :
                                              right.index[j] = left.index[i]]
                       ELSE NaN]])

\* left.merge(right, left_index=True, right_index=True): how='inner', the
\* rows of left whose label is a label of right, in left's order, with the
\* columns of both (right's labels are unique)
MergeOnIndex(left, right) ==
    LET keep == SelectSeq([i \in 1..NRows(left) |-> i],
                          LAMBDA i : left.index[i] \in RangeOf(right.index))
    IN  Frame(left.name,
              [k \in 1..Len(keep) |-> left.index[keep[k]]],
              [c \in DOMAIN left.cols \cup DOMAIN right.cols |->
                  [k \in 1..Len(keep) |->
                      IF c \in DOMAIN left.cols THEN left.cols[c][keep[k]]
                      ELSE At(right, c, left.index[keep[k]])]])

\* DataFrame.reset_index(drop=True)
DropIndex(frame) == Frame(NoName, RangeIndex(NRows(frame)), frame.cols)

add_regressor_to_future(future, regressors_df) ==
    LET futures0 == future
        futures1 == [futures0 EXCEPT !.index = to_datetime(futures0.cols.ds),
                                     !.name = "ds"]
        regressors == ConcatColumns(regressors_df)
        futures2 == MergeOnIndex(futures1, regressors)
    IN  DropIndex(futures2)

\* pd.concat([a, b], axis=0): the rows of a, then the rows of b
ConcatRows(a, b) ==
    Frame(a.name, a.index \o b.index,
          [c \in DOMAIN a.cols |-> a.cols[c] \o b.cols[c]])

HasDuplicates(index) ==
    \E i, j \in 1..Len(index) : i # j /\ index[i] = index[j]

\* frame.loc[:, name] = series: the series is aligned to the frame's index.
\* Equal indexes: the values are copied as they are.  Otherwise the series
\* is reindexed, which raises when its own index holds a label twice, and
\* yields a missing value at a label the series does not have.
AssignAligned(frame, name, index, values) ==
    IF index = frame.index
    THEN [raised |-> FALSE, frame |-> [frame EXCEPT !.cols = (name :> values) @@ @]]
    ELSE IF HasDuplicates(index)
    THEN [raised |-> TRUE, frame |-> frame]
    ELSE [raised |-> FALSE,
          frame |-> [frame EXCEPT !.cols =
              (name :> [i \in 1..NRows(frame) |->
                          IF frame.index[i] \in RangeOf(index)
                          THEN values[CHOOSE j \in 1..Len(index) :
                                          index[j] = frame.index[i]]
                          ELSE NaN]) @@ @]]

SetIndexToDs(frame) ==
    [frame EXCEPT !.index = to_datetime(frame.cols.ds), !.name = "ds"]

\* the three arguments are changed in place; forecast is what is returned
make_verif(forecast, data_train, data_test) ==
    LET forecast1 == SetIndexToDs(forecast)
        train1 == SetIndexToDs(data_train)
        test1 == SetIndexToDs(data_test)
        data == ConcatRows(train1, test1)
        assigned == AssignAligned(forecast1, "y", data.index, data.cols.y)
    IN  [raised |-> assigned.raised, forecast |-> assigned.frame,
         data_train |-> train1, data_test |-> test1]

(***************************************************************************)
(* State.  One caller per specification:                                   *)
(*   Spec      filters the column "y" of a table df, then filters the      *)
(*             result again with the same window and threshold;            *)
(*   SpecSplit splits a date-indexed table with prepare_data;              *)
(*   SpecJoin  attaches regressors to a horizon table, or joins a forecast *)
(*             with the observations.                                      *)
(***************************************************************************)
VARIABLES df,            \* the table given to median_filter
          df0,           \* that table as it was before the first call
          window,        \* W
          std,           \* K
          pass1,         \* the column returned by the first call
          pass2,         \* the column returned by the second call
          data,          \* the table given to prepare_data
          year,          \* the cutoff year
          data_train,    \* prepare_data's first result / make_verif's argument
          data_test,     \* prepare_data's second result / make_verif's argument
          future,        \* the horizon table
          regressors_df, \* the list of regressor tables
          futures,       \* the table add_regressor_to_future returns
          forecast,      \* the forecast table, changed in place by make_verif
          forecast0,     \* the forecast table before make_verif
          raised,        \* whether the call raised
          pc             \* where the caller is

filterVars == <<df, df0, window, std, pass1, pass2>>
splitVars == <<data, year>>
tableVars == <<data_train, data_test>>
joinVars == <<future, regressors_df, futures, forecast, forecast0, raised>>

vars == <<filterVars, splitVars, tableVars, joinVars, pc>>

Unused == << >>

NoFilter ==
    /\ df = Unused /\ df0 = Unused /\ window = 0 /\ std = 0
    /\ pass1 = Unused /\ pass2 = Unused

NoSplit == data = Unused /\ year = 0

NoTables == data_train = Unused /\ data_test = Unused

NoJoin ==
    /\ future = Unused /\ regressors_df = Unused /\ futures = Unused
    /\ forecast = Unused /\ forecast0 = Unused /\ raised = FALSE

\* a second column of the caller's table, which the filter is not asked about
Rain(n) == [i \in 1..n |-> i % 2]

MakeTable(y) == [y |-> y, rain |-> Rain(Len(y))]

\* 48 hourly counts, all 10, except the one at (0-based) index 24
SpikeColumn == [i \in 1..48 |-> IF i = 25 THEN 1000 ELSE 10]

Init ==
    /\ \/ /\ \E y \in SeqsUpTo(Cells, MaxLen) : df = MakeTable(y)
          /\ window \in 1..MaxWindow
          /\ std \in 1..MaxStd
       \/ /\ df = MakeTable(SpikeColumn)
          /\ window = DefaultWindow
          /\ std = DefaultStd
    /\ df0 = df
    /\ pass1 = << >>
    /\ pass2 = << >>
    /\ NoSplit /\ NoTables /\ NoJoin
    /\ pc = "start"

\* pass1 = median_filter(df, varname='y', window=window, std=std)
Filter ==
    /\ pc = "start"
    /\ LET r == median_filter(df, "y", window, std)
       IN  /\ df' = r.df
           /\ pass1' = r.ret
    /\ pc' = "filtered"
    /\ UNCHANGED <<df0, window, std, pass2, splitVars, tableVars, joinVars>>

\* pass2 = median_filter(pass1.to_frame(), varname='y', window=window, std=std)
Refilter ==
    /\ pc = "filtered"
    /\ pass2' = median_filter([y |-> pass1], "y", window, std).ret
    /\ pc' = "refiltered"
    /\ UNCHANGED <<df, df0, window, std, pass1, splitVars, tableVars, joinVars>>

Next == Filter \/ Refilter

Spec == Init /\ [][Next]_vars

(***************************************************************************)
(* SpecSplit: the tables drawn are date-ordered (the index never           *)
(* decreases); the column y numbers the rows, so that each row is          *)
(* recognisable in the results.                                            *)
(***************************************************************************)
IndexNames == {"datetime", "date", NoName}

\* the sequences over S of length <= n that never decrease
RECURSIVE SortedSeqsUpTo(_, _)
SortedSeqsUpTo(S, n) ==
    IF n = 0 THEN {<< >>}
    ELSE LET shorter == SortedSeqsUpTo(S, n - 1)
             longest == {t \in shorter : Len(t) = n - 1}
         IN  shorter \cup
             UNION {{Append(s, v) : v \in {w \in S : s = << >> \/ s[Len(s)] <= w}} :
                    s \in longest}

InitSplit ==
    /\ \E index \in SortedSeqsUpTo(Instants, MaxRows), name \in IndexNames :
        /\ data = Frame(name, index, [y |-> [i \in 1..Len(index) |-> i]])
    /\ year \in (FirstYear - 1)..(LastYear + 1)
    /\ NoFilter /\ NoTables /\ NoJoin
    /\ pc = "start"

\* data_train, data_test = prepare_data(data, year)
PrepareData ==
    /\ pc = "start"
    /\ LET r == prepare_data(data, year)
       IN  /\ data_train' = r.data_train
           /\ data_test' = r.data_test
    /\ pc' = "split"
    /\ UNCHANGED <<filterVars, splitVars, joinVars>>

NextSplit == PrepareData

SpecSplit == InitSplit /\ [][NextSplit]_vars

(***************************************************************************)
(* SpecJoin: the horizon/forecast table holds timestamps in ascending      *)
(* order, one row per day; each regressor table, and each of the train and *)
(* test tables, holds distinct days (the train and test tables may share   *)
(* days with each other).                                                  *)
(***************************************************************************)
DsColumn(kind, days) ==
    LET s == Ascending(days) IN [i \in 1..Len(s) |-> <<kind, s[i]>>]

\* a table with a 'ds' column and value columns; column c holds base[c] + day
DsTable(kind, days, base) ==
    LET ds == DsColumn(kind, days)
    IN  Frame(NoName, RangeIndex(Len(ds)),
              ("ds" :> ds) @@ [c \in DOMAIN base |-> [i \in 1..Len(ds) |-> base[c] + ds[i][2]]])

\* a regressor table: a timestamp index and one column, holding base + day
RegressorTable(days, c, base) ==
    LET ds == DsColumn("ts", days)
    IN  Frame("datetime", ds, (c :> [i \in 1..Len(ds) |-> base + ds[i][2]]))

ForecastBase == [yhat |-> 10 * MaxDate, yhat_lower |-> 20 * MaxDate, yhat_upper |-> 30 * MaxDate]

InitJoin ==
    /\ \/ /\ \E days \in SUBSET Days : future = DsTable("ts", days, << >>)
          /\ \E d1, d2 \in SUBSET Days :
                regressors_df = <<RegressorTable(d1, "rain", 0),
                                  RegressorTable(d2, "temp", MaxDate)>>
          /\ forecast = Unused
          /\ NoTables
       \/ /\ \E days \in SUBSET Days : forecast = DsTable("ts", days, ForecastBase)
          /\ \E kind \in Kinds, d1, d2 \in SUBSET Days :
                /\ data_train = DsTable(kind, d1, [y |-> 0])
                /\ data_test = DsTable(kind, d2, [y |-> MaxDate])
          /\ future = Unused
          /\ regressors_df = Unused
    /\ forecast0 = forecast
    /\ futures = Unused
    /\ raised = FALSE
    /\ NoFilter /\ NoSplit
    /\ pc = "start"

\* futures = add_regressor_to_future(future, regressors_df)
AddRegressorToFuture ==
    /\ pc = "start"
    /\ future # Unused
    /\ futures' = add_regressor_to_future(future, regressors_df)
    /\ pc' = "merged"
    /\ UNCHANGED <<filterVars, splitVars, tableVars, future, regressors_df,
                   forecast, forecast0, raised>>

\* verif = make_verif(forecast, data_train, data_test)
MakeVerif ==
    /\ pc = "start"
    /\ forecast # Unused
    /\ LET r == make_verif(forecast, data_train, data_test)
       IN  /\ forecast' = r.forecast
           /\ data_train' = r.data_train
           /\ data_test' = r.data_test
           /\ raised' = r.raised
    /\ pc' = "joined"
    /\ UNCHANGED <<filterVars, splitVars, future, regressors_df, futures, forecast0>>

NextJoin == AddRegressorToFuture \/ MakeVerif

SpecJoin == InitJoin /\ [][NextJoin]_vars

(***************************************************************************)
(* The statistics the claims speak of, defined from their mathematical     *)
(* definitions: order statistics for the median, squared deviations from   *)
(* the mean for the standard deviation.                                    *)
(***************************************************************************)
Positions(col) == 1..Len(col)

\* the positions of the table inside the centered span of `width' records
Span(col, i, width) ==
    {j \in Positions(col) : -(width \div 2) <= j - i /\ j - i <= (width - 1) \div 2}

FullSpan(col, i, width) == Cardinality(Span(col, i, width)) = width

Present(col, P) == {j \in P : col[j] # NaN}

\* the k-th smallest of the values of col at the positions P
KthSmallest(col, P, k) ==
    CHOOSE v \in {col[j] : j \in P} :
        /\ Cardinality({j \in P : col[j] < v}) < k
        /\ Cardinality({j \in P : col[j] <= v}) >= k

\* twice the median of col over P
TwiceMedian(col, P) ==
    LET n == Cardinality(P)
    IN  KthSmallest(col, P, (n + 1) \div 2) + KthSmallest(col, P, n \div 2 + 1)

RECURSIVE SumOver(_, _)
SumOver(f, P) ==
    IF P = {} THEN 0
    ELSE LET j == CHOOSE x \in P : TRUE IN f[j] + SumOver(f, P \ {j})

\* n * Sum((x - mean)^2) over P, an integer: Sum((n*x - Sum(x))^2) / n
ScaledSquares(col, P) ==
    LET n == Cardinality(P)
        total == SumOver(col, P)
        dev == [j \in P |-> (n * col[j] - total) * (n * col[j] - total)]
    IN  SumOver(dev, P) \div n

\* |col[i] - median| >= K * std, both statistics taken over the positions P
AtOrBeyond(col, i, P, K) ==
    LET n == Cardinality(P)
        d2 == 2 * col[i] - TwiceMedian(col, P)
    IN  d2 * d2 * ((n * (n - 1)) \div 2) >= 2 * K * K * ScaledSquares(col, P)

Marked(before, after, i) == before[i] # NaN /\ after[i] = NaN

Filtered == pc \in {"filtered", "refiltered"}

\* C1: at every record whose centered window of W records is fully available
\* and holds no missing value, the output is the input value when
\* |value - median| < K*std and the missing marker otherwise (a tie is marked),
\* the statistics being those of the original values of the window (W >= 2:
\* one record has no sample standard deviation).
C1_InteriorThreshold ==
    Filtered =>
        \A i \in Positions(df0.y) :
            LET P == Span(df0.y, i, window)
            IN  (FullSpan(df0.y, i, window) /\ Present(df0.y, P) = P /\ window >= 2) =>
                    pass1[i] = IF AtOrBeyond(df0.y, i, P, std) THEN NaN ELSE df0.y[i]

\* a record with a full window is marked on an exact tie with a non-zero
\* standard deviation, and another record with a full window is kept
C1_Witness ==
    /\ Filtered
    /\ \E i, k \in Positions(df0.y) :
        LET P == Span(df0.y, i, window)
            Q == Span(df0.y, k, window)
            n == Cardinality(P)
            d2 == 2 * df0.y[i] - TwiceMedian(df0.y, P)
        IN  /\ FullSpan(df0.y, i, window) /\ Present(df0.y, P) = P /\ window >= 2
            /\ ScaledSquares(df0.y, P) > 0
            /\ d2 * d2 * ((n * (n - 1)) \div 2) = 2 * std * std * ScaledSquares(df0.y, P)
            /\ pass1[i] = NaN
            /\ FullSpan(df0.y, k, window) /\ Present(df0.y, Q) = Q
            /\ pass1[k] = df0.y[k]

IsSpike == df0.y = SpikeColumn /\ window = DefaultWindow /\ std = DefaultStd

\* C2 (as stated): on the 48-value table with the spike at index 24, W=24 and
\* K=3, the output is missing at index 24 and equals 10 everywhere else.
C2_OnlySpikeMarked ==
    (Filtered /\ IsSpike) =>
        pass1 = [i \in 1..48 |-> IF i = 25 THEN NaN ELSE 10]

\* C2 (amended): on that table the output is missing at index 24 and at index
\* 12, the one record whose full window (indices 0..23) is constant, and
\* equals 10 everywhere else.
C2_SpikeAndFlatWindowMarked ==
    (Filtered /\ IsSpike) =>
        pass1 = [i \in 1..48 |-> IF i \in {13, 25} THEN NaN ELSE 10]

C2_Witness == Filtered /\ IsSpike /\ pass1[25] = NaN /\ pass1[24] = 10

Truncated(col, i, width) == ~FullSpan(col, i, width)

\* C3 (as stated, where the truncated window's standard deviation is not
\* zero): a record whose centered window extends past the table is tested
\* against the median and standard deviation of the records available in the
\* truncated window, and is marked when it lies at or beyond K of those
\* standard deviations from that median.
C3_TruncatedWindowUsed ==
    Filtered =>
        \A i \in Positions(df0.y) :
            LET P == Span(df0.y, i, window)
            IN  (/\ Truncated(df0.y, i, window)
                 /\ Present(df0.y, P) = P
                 /\ Cardinality(P) >= 2
                 /\ ScaledSquares(df0.y, P) > 0
                 /\ AtOrBeyond(df0.y, i, P, std)) => pass1[i] = NaN

\* C3 (amended): a record whose centered window extends past the table has no
\* median and no standard deviation (both are missing), both threshold tests
\* are false there, and the output at that record equals the input.
C3_TruncatedWindowKept ==
    Filtered =>
        \A i \in Positions(df0.y) :
            Truncated(df0.y, i, window) => pass1[i] = df0.y[i]

\* a record at the edge that the truncated-window statistics would mark is
\* kept, in a call that does mark a record with a full window
C3_Witness ==
    /\ Filtered
    /\ \E i, k \in Positions(df0.y) :
        LET P == Span(df0.y, i, window)
        IN  /\ Truncated(df0.y, i, window)
            /\ Present(df0.y, P) = P
            /\ Cardinality(P) >= 2
            /\ ScaledSquares(df0.y, P) > 0
            /\ AtOrBeyond(df0.y, i, P, std)
            /\ pass1[i] = df0.y[i]
            /\ Marked(df0.y, pass1, k)

\* C4 (as stated, for records whose window is fully inside the table and
\* whose values are not all equal): when the window holds a missing entry and
\* at least two values, the record is tested against the median and standard
\* deviation of the window's values, the missing entries being ignored.
C4_MissingIgnored ==
    Filtered =>
        \A i \in Positions(df0.y) :
            LET P == Span(df0.y, i, window)
                Q == Present(df0.y, P)
            IN  (/\ FullSpan(df0.y, i, window)
                 /\ Q # P
                 /\ Cardinality(Q) >= 2
                 /\ i \in Q
                 /\ ScaledSquares(df0.y, Q) > 0) =>
                    pass1[i] = IF AtOrBeyond(df0.y, i, Q, std) THEN NaN ELSE df0.y[i]

\* C4 (amended): when the window of a record holds a missing entry, the median
\* and standard deviation at that record are missing (the window has fewer
\* than W observations), both threshold tests are false, and the output at
\* that record equals the input.
C4_MissingWindowKept ==
    Filtered =>
        \A i \in Positions(df0.y) :
            LET P == Span(df0.y, i, window)
            IN  Present(df0.y, P) # P => pass1[i] = df0.y[i]

\* a record whose full window holds a missing entry, and which the statistics
\* of the window's remaining values would mark, is kept
C4_Witness ==
    /\ Filtered
    /\ \E i \in Positions(df0.y) :
        LET P == Span(df0.y, i, window)
            Q == Present(df0.y, P)
        IN  /\ FullSpan(df0.y, i, window)
            /\ Q # P /\ Cardinality(Q) >= 2 /\ i \in Q
            /\ ScaledSquares(df0.y, Q) > 0
            /\ AtOrBeyond(df0.y, i, Q, std)
            /\ pass1[i] = df0.y[i]

\* C5: filtering the output of a first pass again, with the same W and K,
\* returns that output: the same missing positions and the same values.
C5_Idempotent == pc = "refiltered" => pass2 = pass1

\* the first pass marked a record that lies in the window of a record it kept
C5_Witness ==
    /\ pc = "refiltered"
    /\ \E i, k \in Positions(df0.y) :
        /\ Marked(df0.y, pass1, i)
        /\ i \in Span(df0.y, k, window)
        /\ FullSpan(df0.y, k, window)
        /\ pass1[k] # NaN
        /\ pass2[k] = pass1[k]

\* C6: a call leaves the caller's table as it was: the same columns (no
\* 'median', no 'std') holding the same values, the filtered column included.
C6_CallerTableUnchanged == Filtered => df = df0

\* the call marked a record of its result while the caller's column kept it
C6_Witness ==
    /\ pc = "filtered"
    /\ \E i \in Positions(df0.y) : Marked(df0.y, pass1, i) /\ df.y[i] = df0.y[i]

\* C7: the returned column has as many entries as the input, and each is the
\* missing marker or the input value at that position.
C7_ShapeAndValues ==
    Filtered =>
        /\ Len(pass1) = Len(df0.y)
        /\ \A i \in Positions(df0.y) : pass1[i] \in {NaN, df0.y[i]}

\* a call that marked one record and kept another
C7_Witness ==
    /\ Filtered
    /\ \E i, k \in Positions(df0.y) :
        /\ Marked(df0.y, pass1, i)
        /\ pass1[k] = df0.y[k] /\ df0.y[k] # NaN


(***************************************************************************)
(* prepare_data                                                            *)
(***************************************************************************)
\* the column of a result of prepare_data that is not the observation
DateColumn(t) == CHOOSE c \in DOMAIN t.cols : c # "y"

\* the rows of a result, as <<date, observation>>
ResultRows(t) == [i \in 1..NRows(t) |-> <<t.cols[DateColumn(t)][i], t.cols.y[i]>>]

InputRows == [i \in 1..NRows(data) |-> <<data.index[i], data.cols.y[i]>>]

\* the training table holds the rows of a year < year, the test table the
\* rows of a year >= year, in the input's order; the date is a column and the
\* rows are numbered
Partitioned ==
    /\ ResultRows(data_train) = SelectSeq(InputRows, LAMBDA r : YearOf(r[1]) < year)
    /\ ResultRows(data_test) = SelectSeq(InputRows, LAMBDA r : YearOf(r[1]) >= year)
    /\ data_train.index = RangeIndex(NRows(data_train))
    /\ data_test.index = RangeIndex(NRows(data_test))
    /\ Cardinality(DOMAIN data_train.cols) = 2
    /\ Cardinality(DOMAIN data_test.cols) = 2

DaysOf(ds) == {ds[i][2] : i \in 1..Len(ds)}

RegressorDays == UNION {DaysOf(regressors_df[k].index) : k \in 1..Len(regressors_df)}

ObservedDays == DaysOf(data_train.cols.ds) \cup DaysOf(data_test.cols.ds)

DistinctDates == DaysOf(data_train.cols.ds) \cap DaysOf(data_test.cols.ds) = {}

\* the result has exactly the rows of the horizon table whose date is the
\* date of a row of some regressor table
FutureInnerJoin ==
    pc = "merged" =>
        futures.cols.ds = SelectSeq(future.cols.ds, LAMBDA d : d[2] \in RegressorDays)

\* C9 (as stated; for make_verif, with non-empty train and test tables whose
\* dates are pairwise distinct): in add_regressor_to_future and in make_verif the rows of the
\* left table whose date is matched by no other table are absent from the
\* result, which holds exactly the matched rows, and no error is raised.
C9_BothInnerJoins ==
    /\ FutureInnerJoin
    /\ (pc = "joined" /\ DistinctDates /\ NRows(data_train) > 0 /\ NRows(data_test) > 0) =>
        /\ ~raised
        /\ forecast.cols.ds = SelectSeq(forecast0.cols.ds, LAMBDA d : d[2] \in ObservedDays)

\* C9 (amended): add_regressor_to_future drops the rows of the horizon table
\* whose date is matched by no regressor table and keeps exactly the others;
\* make_verif drops no row: with train and test dates pairwise distinct it
\* raises no error, keeps every forecast row, and gives a forecast row whose
\* date is matched by neither table a missing y.
C9_InnerJoinAndAlignment ==
    /\ FutureInnerJoin
    /\ (pc = "joined" /\ DistinctDates) =>
        /\ ~raised
        /\ forecast.cols.ds = forecast0.cols.ds
        /\ \A i \in 1..NRows(forecast) :
            forecast.cols.ds[i][2] \notin ObservedDays => forecast.cols.y[i] = NaN

\* make_verif returned a forecast row whose date no table matches, next to a
\* row whose date is matched
C9_Witness ==
    /\ pc = "joined" /\ DistinctDates /\ ~raised
    /\ \E i, k \in 1..NRows(forecast) :
        /\ forecast.cols.ds[i][2] \notin ObservedDays
        /\ forecast.cols.y[i] = NaN
        /\ forecast.cols.ds[k][2] \in ObservedDays

\* the y of the row of table t dated like d
ObservedAt(t, d) ==
    t.cols.y[CHOOSE j \in 1..NRows(t) : t.cols.ds[j][2] = d[2]]

\* C10: with train and test dates pairwise distinct, the result of make_verif
\* is indexed by the forecast's dates, keeps the forecast's columns as they
\* were, and holds at every forecast date of the training (test) table the y
\* that the training (test) table has for that date.
C10_ObservedAligned ==
    (pc = "joined" /\ DistinctDates) =>
        /\ ~raised
        /\ forecast.index = [i \in 1..NRows(forecast0) |-> <<"ts", forecast0.cols.ds[i][2]>>]
        /\ \A c \in DOMAIN forecast0.cols : forecast.cols[c] = forecast0.cols[c]
        /\ \A i \in 1..NRows(forecast0) :
            LET d == forecast0.cols.ds[i]
            IN  /\ d[2] \in DaysOf(data_train.cols.ds) =>
                    forecast.cols.y[i] = ObservedAt(data_train, d)
                /\ d[2] \in DaysOf(data_test.cols.ds) =>
                    forecast.cols.y[i] = ObservedAt(data_test, d)

\* a forecast with a training date and a test date, joined with tables whose
\* dates are strings
C10_Witness ==
    /\ pc = "joined" /\ DistinctDates /\ ~raised
    /\ \E i, k \in 1..NRows(forecast) :
        /\ forecast.cols.ds[i][2] \in DaysOf(data_train.cols.ds)
        /\ forecast.cols.ds[k][2] \in DaysOf(data_test.cols.ds)
        /\ data_train.cols.ds[1][1] = "str"
        /\ forecast.cols.y[i] # NaN /\ forecast.cols.y[k] # NaN

====
